---- MODULE Spec2Model ----
(***************************************************************************)
(* Model of workspace/5_measure_onnx.ipynb: the notebook's cells run top   *)
(* to bottom on one thread (Run All); an uncaught exception stops the run. *)
(* Samples are identified by their 1-based position in the evaluation      *)
(* folder, labels are class ids, wall-clock readings are integer ticks,    *)
(* and every real number is an exact fraction <<numerator, denominator>>.  *)
(***************************************************************************)
EXTENDS Integers, Sequences, FiniteSets

\* ------------------------------------------------------------------ bounds
\* Largest evaluation folder explored (samples).
MaxSamples == 3
\* DataLoader batch_size (32 in the notebook), scaled so that a few samples
\* already give several batches and a short last batch.
BatchSize == 2
\* Largest value explored for the literal num_trials (100 in the notebook).
MaxTrials == 2
\* Largest value explored for the literal num_batches (50 in the notebook).
MaxBatches == 2
\* Class ids of the image folder (more than one class).
Classes == {0, 1}
\* Scores an output vector may hold for a class.
Scores == {0, 1}
\* Sizes os.path.getsize may report for the exported model.
Sizes == {1048576}
\* Readings of time.time(), in ticks: the system clock is not monotonic, a
\* later reading may be lower than an earlier one when the clock is set back.
Ticks == {0, 1}
\* Number of "Warm-up run" statements in a measurement cell.
warmup == 1

\* ----------------------------------------------------------- plain helpers
Min(a, b) == IF a <= b THEN a ELSE b

RECURSIVE SumSeq(_)
\* np.sum over a list of numbers.
SumSeq(s) == IF s = <<>> THEN 0 ELSE s[1] + SumSeq(Tail(s))

RECURSIVE Insert(_, _)
Insert(x, s) ==
  IF s = <<>> THEN <<x>>
  ELSE IF x <= s[1] THEN <<x>> \o s
  ELSE <<s[1]>> \o Insert(x, Tail(s))

RECURSIVE Sorted(_)
\* The ascending copy of the data np.percentile works on.
Sorted(s) == IF s = <<>> THEN <<>> ELSE Insert(s[1], Sorted(Tail(s)))

SeqMin(s) == Sorted(s)[1]
SeqMax(s) == Sorted(s)[Len(s)]

\* Fractions: <<n, d>> is n/d; d = 0 is numpy's inf (n > 0), -inf (n < 0)
\* or nan (n = 0).
NaN == <<0, 0>>
Unset == <<>>

PercentileUnsorted(data, q) ==
  LET n    == Len(data)
      pos  == q * (n - 1)
      lo   == (pos \div 100) + 1
      hi   == Min(lo + 1, n)
      frac == pos % 100
  IN  <<data[lo] * 100 + (data[hi] - data[lo]) * frac, 100>>

\* np.percentile(data, q), method "linear": the value at the virtual index
\* q/100 * (n-1) of the sorted data, interpolated between its neighbours.
\* Non-empty data only.
Percentile(data, q) ==
  LET a    == Sorted(data)
      n    == Len(a)
      pos  == q * (n - 1)
      lo   == (pos \div 100) + 1
      hi   == Min(lo + 1, n)
      frac == pos % 100
  IN  <<a[lo] * 100 + (a[hi] - a[lo]) * frac, 100>>

\* x * k for a fraction x.
Times(x, k) == <<x[1] * k, x[2]>>

\* The f-string format ":.2f": the value rounded to hundredths (ties to
\* even), or the text numpy prints for a non-finite value.
Fmt2(x) ==
  IF x[2] = 0
  THEN [kind |-> IF x[1] = 0 THEN "nan" ELSE IF x[1] > 0 THEN "inf" ELSE "-inf",
        hundredths |-> 0]
  ELSE LET n == IF x[2] < 0 THEN -x[1] ELSE x[1]
           d == IF x[2] < 0 THEN -x[2] ELSE x[2]
           q == (n * 100) \div d
           r == (n * 100) % d
       IN  [kind |-> "num",
            hundredths |-> IF 2 * r > d THEN q + 1
                           ELSE IF 2 * r < d THEN q
                           ELSE IF q % 2 = 0 THEN q ELSE q + 1]

\* One printed line: the metric, the value of the expression inside the
\* f-string and its formatted text.
Line(metric, value) == [metric |-> metric, value |-> value, text |-> Fmt2(value)]

\* ------------------------------------------------------------------- state
VARIABLES
  pc,            \* the cell being executed, or "done" / "aborted"
  step,          \* position inside the current cell
  evaluation,    \* labels of the files in the evaluation folder, in folder order
  test_dataset,  \* the loaded dataset: test_dataset[i] is the label of sample i
  engine,        \* which engine the session wraps: "right", "wrong" or "any"
  batch_idx,     \* batches the accuracy loop has taken from test_loader
  correct, total, accuracy,
  model_size,
  num_trials, single_sample, latencies,
  num_batches, batch_input, batch_times, batch_fps,
  loop_i,        \* iterations finished by the current timing loop
  calls,         \* every ort_session.run call made, in order
  output,        \* the lines printed so far
  error,         \* the exception that stopped the run, or "none"
  history        \* the steps executed so far, in order

accVars   == <<batch_idx, correct, total, accuracy>>
latVars   == <<num_trials, single_sample, latencies>>
batchVars == <<num_batches, batch_input, batch_times, batch_fps>>
dataVars  == <<evaluation, test_dataset, engine>>
vars == <<pc, step, dataVars, accVars, model_size, latVars, batchVars,
          loop_i, calls, output, error, history>>

\* ------------------------------------------------------------ the notebook
CellOrderSizeLate ==
  <<"load", "accuracy", "accuracy_report", "latency", "size",
    "latency_report", "batch", "batch_report", "summary">>

CellOrderReportFirst ==
  <<"load", "accuracy", "accuracy_report", "size", "latency_report",
    "latency", "batch", "batch_report", "summary">>

\* The code cells from the dataset cell to the summary cell, top to bottom.
CellOrder ==
  <<"load", "accuracy", "accuracy_report", "size", "latency",
    "latency_report", "batch", "batch_report", "summary">>

\* Run All: the cell below c, or "done" below the last one.
NextCell(c) ==
  LET i == CHOOSE j \in 1..Len(CellOrder) : CellOrder[j] = c
  IN  IF i = Len(CellOrder) THEN "done" ELSE CellOrder[i + 1]

\* len(test_loader): DataLoader keeps the short last batch (drop_last=False).
NumBatches(ds) == (Len(ds) + BatchSize - 1) \div BatchSize

LoaderImagesReversed(ds, k) ==
  LET j == NumBatches(ds) + 1 - k
  IN  [i \in 1..(Min(j * BatchSize, Len(ds)) - (j - 1) * BatchSize)
         |-> (j - 1) * BatchSize + i]

\* The images of the k-th batch of test_loader (shuffle=False: dataset order).
LoaderImages(ds, k) ==
  [i \in 1..(Min(k * BatchSize, Len(ds)) - (k - 1) * BatchSize)
     |-> (k - 1) * BatchSize + i]

\* The labels of the k-th batch of test_loader.
LoaderLabels(ds, k) ==
  LET imgs == LoaderImages(ds, k) IN [i \in 1..Len(imgs) |-> ds[imgs[i]]]

\* np.argmax over one score vector: the first class holding the maximum.
ArgMax(v) ==
  CHOOSE c \in Classes :
    /\ \A d \in Classes : v[d] <= v[c]
    /\ \A d \in Classes : (v[d] = v[c]) => c <= d

OneHot(c) == [d \in Classes |-> IF d = c THEN 1 ELSE 0]

\* What ort_session.run may return for a batch of images, one score vector
\* per image: the engine that always scores the true class highest, the one
\* that always scores another class highest, and an arbitrary model.
EngineOutputs(kind, ds, images) ==
  CASE kind = "right" ->
         {[i \in 1..Len(images) |-> OneHot(ds[images[i]])]}
    [] kind = "wrong" ->
         {[i \in 1..Len(images) |->
             OneHot(CHOOSE c \in Classes : c # ds[images[i]])]}
    [] OTHER -> [1..Len(images) -> [Classes -> Scores]]

CountAnyEqual(predicted, labels) ==
  IF \E i \in 1..Len(labels) : predicted[i] = labels[i] THEN 1 ELSE 0

\* (predicted == labels.numpy()).sum()
CountEqual(predicted, labels) ==
  Cardinality({i \in 1..Len(labels) : predicted[i] = labels[i]})

\* One ort_session.run call as a call-counting engine sees it: the phase, the
\* kind of call, the input, and <<elapsed>> when the call was timed.
Call(phase, kind, input, timing) ==
  [phase |-> phase, kind |-> kind, input |-> input, timing |-> timing]

\* time.time() - start_time
Elapsed(t0, t1) == t1 - t0

MoreTrialsInclusive(done, n) == done <= n

\* for _ in range(n): whether another iteration follows `done` finished ones.
MoreTrials(done, n) == done < n

RecordFirst(samples, x) == <<x>> \o samples

\* list.append
Record(samples, x) == Append(samples, x)

BatchFpsPerCall(batch, n, times) == <<Len(batch), SumSeq(times)>>

\* (batch_input.shape[0] * num_batches) / np.sum(batch_times)
BatchFps(batch, n, times) == <<Len(batch) * n, SumSeq(times)>>

\* num_trials/np.sum(latencies)
Throughput(n, samples) == <<n, SumSeq(samples)>>

\* np.percentile(latencies, q) * 1000; numpy yields nan for empty data.
PercentileMs(samples, q) ==
  IF samples = <<>> THEN NaN ELSE Times(Percentile(samples, q), 1000)

LatencyLines ==
  << Line("Inference Latency (single sample, median)", PercentileMs(latencies, 50)),
     Line("Inference Latency (single sample, 95th percentile)", PercentileMs(latencies, 95)),
     Line("Inference Latency (single sample, 99th percentile)", PercentileMs(latencies, 99)),
     Line("Inference Throughput (single sample)", Throughput(num_trials, latencies)) >>

ZeroDividesNever(c, t) == FALSE

\* correct / total on Python ints raises ZeroDivisionError when total is 0.
ZeroDivides(c, t) == t = 0

\* An uncaught exception of kind e: the cell stops and Run All stops with it.
Raise(e) == pc' = "aborted" /\ error' = e

Did(s) == history' = Append(history, s)

\* -------------------------------------------------------------------- Init
\* What the evaluation folder may hold: ImageFolder lists the files class by
\* class, so the labels come in ascending order.
Folders ==
  {ds \in UNION {[1..n -> Classes] : n \in 0..MaxSamples} :
     \A i \in 1..(Len(ds) - 1) : ds[i] <= ds[i + 1]}

\* Before the dataset cell runs: nothing is loaded, measured or printed.
Init ==
  /\ pc = "load" /\ step = "start"
  /\ evaluation \in Folders
  /\ test_dataset = <<>>
  /\ engine \in {"right", "wrong", "any"}
  /\ batch_idx = 0 /\ correct = 0 /\ total = 0 /\ accuracy = Unset
  /\ model_size = 0
  /\ num_trials = 0 /\ single_sample = <<>> /\ latencies = <<>>
  /\ num_batches = 0 /\ batch_input = <<>> /\ batch_times = <<>>
  /\ batch_fps = Unset
  /\ loop_i = 0
  /\ calls = <<>> /\ output = <<>> /\ error = "none" /\ history = <<>>

\* ----------------------------------------------------------------- actions
\* The dataset cell. ImageFolder refuses a folder without files; a dataset
\* class that accepts one hands the loader an empty dataset.
LoadDataset ==
  /\ pc = "load"
  /\ Did("load")
  /\ \/ /\ evaluation = <<>>
        /\ Raise("FileNotFoundError")
        /\ UNCHANGED test_dataset
     \/ /\ test_dataset' = evaluation
        /\ pc' = NextCell("load")
        /\ UNCHANGED error
  /\ UNCHANGED <<step, evaluation, engine, accVars, model_size, latVars,
                 batchVars, loop_i, calls, output>>

\* correct = 0; total = 0; the loop starts a fresh iteration of test_loader.
AccStart ==
  /\ pc = "accuracy" /\ step = "start"
  /\ correct' = 0 /\ total' = 0 /\ batch_idx' = 0
  /\ step' = "loop"
  /\ Did("accuracy.start")
  /\ UNCHANGED <<pc, dataVars, accuracy, model_size, latVars, batchVars,
                 loop_i, calls, output, error>>

\* One iteration of the accuracy loop: the next batch goes through the
\* engine and the counters are updated.
AccBatch ==
  /\ pc = "accuracy" /\ step = "loop"
  /\ batch_idx < NumBatches(test_dataset)
  /\ LET k      == batch_idx + 1
         images == LoaderImages(test_dataset, k)
         labels == LoaderLabels(test_dataset, k)
     IN  /\ calls' = Append(calls, Call("accuracy", "eval", images, <<>>))
         /\ \/ /\ Raise("EngineInvocationError")
               /\ UNCHANGED <<batch_idx, correct, total>>
            \/ \E outputs \in EngineOutputs(engine, test_dataset, images) :
                 LET predicted == [i \in 1..Len(images) |-> ArgMax(outputs[i])]
                 IN  /\ total' = total + Len(labels)
                     /\ correct' = correct + CountEqual(predicted, labels)
                     /\ batch_idx' = k
                     /\ UNCHANGED <<pc, error>>
  /\ Did("accuracy.batch")
  /\ UNCHANGED <<step, dataVars, accuracy, model_size, latVars, batchVars,
                 loop_i, output>>

\* accuracy = (correct / total) * 100 once the loader is exhausted; with no
\* iteration both are the int 0 and the division raises.
AccFinish ==
  /\ pc = "accuracy" /\ step = "loop"
  /\ batch_idx = NumBatches(test_dataset)
  /\ IF ZeroDivides(correct, total)
     THEN Raise("ZeroDivisionError") /\ UNCHANGED <<accuracy, step>>
     ELSE /\ accuracy' = <<correct * 100, total>>
          /\ pc' = NextCell("accuracy") /\ step' = "start"
          /\ UNCHANGED error
  /\ Did("accuracy.finish")
  /\ UNCHANGED <<dataVars, batch_idx, correct, total, model_size, latVars,
                 batchVars, loop_i, calls, output>>

\* print(f"Accuracy: ...")
AccReport ==
  /\ pc = "accuracy_report"
  /\ output' = Append(output, Line("Accuracy", accuracy))
  /\ pc' = NextCell("accuracy_report")
  /\ Did("accuracy_report")
  /\ UNCHANGED <<step, dataVars, accVars, model_size, latVars, batchVars,
                 loop_i, calls, error>>

\* The model-size cell: os.path.getsize raises when the file is gone.
ModelSize ==
  /\ pc = "size"
  /\ \/ /\ Raise("FileNotFoundError")
        /\ UNCHANGED <<model_size, output>>
     \/ \E s \in Sizes :
          /\ model_size' = s
          /\ output' = Append(output, Line("Model Size on Disk", <<s, 1000000>>))
          /\ pc' = NextCell("size")
          /\ UNCHANGED error
  /\ Did("size")
  /\ UNCHANGED <<step, dataVars, accVars, latVars, batchVars, loop_i, calls>>

\* num_trials = ...; single_sample = next(iter(test_loader))[0][:1]
LatSetup ==
  /\ pc = "latency" /\ step = "start"
  /\ \E n \in 0..MaxTrials : num_trials' = n
  /\ IF NumBatches(test_dataset) = 0
     THEN Raise("StopIteration") /\ UNCHANGED <<single_sample, step>>
     ELSE /\ single_sample' = SubSeq(LoaderImages(test_dataset, 1), 1, 1)
          /\ step' = "warmup"
          /\ UNCHANGED <<pc, error>>
  /\ Did("latency.setup")
  /\ UNCHANGED <<dataVars, accVars, model_size, latencies, batchVars, loop_i,
                 calls, output>>

\* The warm-up run on single_sample, untimed; then latencies = [].
LatWarmup ==
  /\ pc = "latency" /\ step = "warmup"
  /\ calls' = Append(calls, Call("latency", "warmup", single_sample, <<>>))
  /\ \/ /\ Raise("EngineInvocationError")
        /\ UNCHANGED <<latencies, loop_i, step>>
     \/ /\ latencies' = <<>> /\ loop_i' = 0
        /\ step' = "timed"
        /\ UNCHANGED <<pc, error>>
  /\ Did("latency.warmup")
  /\ UNCHANGED <<dataVars, accVars, model_size, num_trials, single_sample,
                 batchVars, output>>

\* One timed trial: read the clock, run the engine on single_sample, read
\* the clock again and append the difference.
LatTrial ==
  /\ pc = "latency" /\ step = "timed"
  /\ MoreTrials(loop_i, num_trials)
  /\ \E t0 \in Ticks :
       \/ /\ calls' = Append(calls, Call("latency", "timed", single_sample, <<>>))
          /\ Raise("EngineInvocationError")
          /\ UNCHANGED <<latencies, loop_i>>
       \/ \E t1 \in Ticks :
            /\ calls' = Append(calls, Call("latency", "timed", single_sample,
                                           <<Elapsed(t0, t1)>>))
            /\ latencies' = Record(latencies, Elapsed(t0, t1))
            /\ loop_i' = loop_i + 1
            /\ UNCHANGED <<pc, error>>
  /\ Did("latency.timed")
  /\ UNCHANGED <<step, dataVars, accVars, model_size, num_trials,
                 single_sample, batchVars, output>>

\* range(num_trials) is exhausted: the measurement cell is finished.
LatEnd ==
  /\ pc = "latency" /\ step = "timed"
  /\ ~MoreTrials(loop_i, num_trials)
  /\ pc' = NextCell("latency") /\ step' = "start"
  /\ Did("latency.end")
  /\ UNCHANGED <<dataVars, accVars, model_size, latVars, batchVars, loop_i,
                 calls, output, error>>

\* The latency report cell: three percentiles and the throughput. On an
\* empty list np.percentile raises IndexError in some numpy releases and
\* returns nan in others.
LatReport ==
  /\ pc = "latency_report"
  /\ \/ /\ latencies = <<>>
        /\ Raise("IndexError")
        /\ UNCHANGED output
     \/ /\ output' = output \o LatencyLines
        /\ pc' = NextCell("latency_report")
        /\ UNCHANGED error
  /\ Did("latency.aggregate")
  /\ UNCHANGED <<step, dataVars, accVars, model_size, latVars, batchVars,
                 loop_i, calls>>

\* num_batches = ...; batch_input = next(iter(test_loader))[0]
BatchSetup ==
  /\ pc = "batch" /\ step = "start"
  /\ \E n \in 0..MaxBatches : num_batches' = n
  /\ IF NumBatches(test_dataset) = 0
     THEN Raise("StopIteration") /\ UNCHANGED <<batch_input, step>>
     ELSE /\ batch_input' = LoaderImages(test_dataset, 1)
          /\ step' = "warmup"
          /\ UNCHANGED <<pc, error>>
  /\ Did("batch.setup")
  /\ UNCHANGED <<dataVars, accVars, model_size, latVars, batch_times,
                 batch_fps, loop_i, calls, output>>

\* The warm-up run on batch_input, untimed; then batch_times = [].
BatchWarmup ==
  /\ pc = "batch" /\ step = "warmup"
  /\ calls' = Append(calls, Call("batch", "warmup", batch_input, <<>>))
  /\ \/ /\ Raise("EngineInvocationError")
        /\ UNCHANGED <<batch_times, loop_i, step>>
     \/ /\ batch_times' = <<>> /\ loop_i' = 0
        /\ step' = "timed"
        /\ UNCHANGED <<pc, error>>
  /\ Did("batch.warmup")
  /\ UNCHANGED <<dataVars, accVars, model_size, latVars, num_batches,
                 batch_input, batch_fps, output>>

\* One timed trial on the whole batch.
BatchTrial ==
  /\ pc = "batch" /\ step = "timed"
  /\ MoreTrials(loop_i, num_batches)
  /\ \E t0 \in Ticks :
       \/ /\ calls' = Append(calls, Call("batch", "timed", batch_input, <<>>))
          /\ Raise("EngineInvocationError")
          /\ UNCHANGED <<batch_times, loop_i>>
       \/ \E t1 \in Ticks :
            /\ calls' = Append(calls, Call("batch", "timed", batch_input,
                                           <<Elapsed(t0, t1)>>))
            /\ batch_times' = Record(batch_times, Elapsed(t0, t1))
            /\ loop_i' = loop_i + 1
            /\ UNCHANGED <<pc, error>>
  /\ Did("batch.timed")
  /\ UNCHANGED <<step, dataVars, accVars, model_size, latVars, num_batches,
                 batch_input, batch_fps, output>>

\* range(num_batches) is exhausted: the measurement cell is finished.
BatchEnd ==
  /\ pc = "batch" /\ step = "timed"
  /\ ~MoreTrials(loop_i, num_batches)
  /\ pc' = NextCell("batch") /\ step' = "start"
  /\ Did("batch.end")
  /\ UNCHANGED <<dataVars, accVars, model_size, latVars, batchVars, loop_i,
                 calls, output, error>>

\* batch_fps = ...; print(f"Batch Throughput: ...")
BatchReport ==
  /\ pc = "batch_report"
  /\ batch_fps' = BatchFps(batch_input, num_batches, batch_times)
  /\ output' = Append(output, Line("Batch Throughput", batch_fps'))
  /\ pc' = NextCell("batch_report")
  /\ Did("batch.aggregate")
  /\ UNCHANGED <<step, dataVars, accVars, model_size, latVars, num_batches,
                 batch_input, batch_times, loop_i, calls, error>>

\* The summary cell prints every metric again (numpy that got this far with
\* an empty list returns nan for its percentiles).
Summary ==
  /\ pc = "summary"
  /\ output' = output
                 \o << Line("Accuracy", accuracy),
                       Line("Model Size on Disk", <<model_size, 1000000>>) >>
                 \o LatencyLines
                 \o << Line("Batch Throughput", batch_fps) >>
  /\ pc' = NextCell("summary")
  /\ Did("summary")
  /\ UNCHANGED <<step, dataVars, accVars, model_size, latVars, batchVars,
                 loop_i, calls, error>>

Next ==
  \/ LoadDataset
  \/ AccStart \/ AccBatch \/ AccFinish \/ AccReport
  \/ ModelSize
  \/ LatSetup \/ LatWarmup \/ LatTrial \/ LatEnd \/ LatReport
  \/ BatchSetup \/ BatchWarmup \/ BatchTrial \/ BatchEnd \/ BatchReport
  \/ Summary

Spec == Init /\ [][Next]_vars

\* ------------------------------------------------- observations for claims
Has(tag) == \E i \in 1..Len(history) : history[i] = tag

CallsOf(phase) == SelectSeq(calls, LAMBDA c : c.phase = phase)

KindOf(phase, kind) == SelectSeq(CallsOf(phase), LAMBDA c : c.kind = kind)

\* The timed calls of a phase whose second clock reading was taken.
Measured(phase) == SelectSeq(KindOf(phase, "timed"), LAMBDA c : c.timing # <<>>)

LinesOf(metric) == SelectSeq(output, LAMBDA l : l.metric = metric)

Metrics == [i \in 1..Len(output) |-> output[i].metric]

RECURSIVE Flatten(_)
Flatten(ss) == IF ss = <<>> THEN <<>> ELSE ss[1] \o Flatten(Tail(ss))

RECURSIVE SumTimings(_)
SumTimings(cs) == IF cs = <<>> THEN 0 ELSE cs[1].timing[1] + SumTimings(Tail(cs))

\* a <= b for fractions with positive denominators.
FracLe(a, b) == a[1] * b[2] <= b[1] * a[2]

ZeroLat == Has("latency.setup") /\ num_trials = 0
ZeroBatch == Has("batch.setup") /\ num_batches = 0

\* ------------------------------------------------------------------ claims

C2_TimingsNonNegative ==
  /\ Has("latency.end") => Len(latencies) = num_trials
  /\ \A i \in 1..Len(latencies) : latencies[i] >= 0

\* C3: in the latency and the batch phase the warm-up calls come before
\* every timed call and carry no timing; every call of the phase is on the
\* same fixed input (one sample, respectively the whole first batch); a
\* finished phase made exactly warmup + trials calls; and the i-th recorded
\* timing is the one measured around the i-th timed call.
C3_WarmupThenTimed ==
  /\ \A ph \in {"latency", "batch"} :
       LET cs == CallsOf(ph)
       IN  /\ \A i \in 1..Len(cs) :
                /\ (i <= warmup) <=> (cs[i].kind = "warmup")
                /\ cs[i].kind \in {"warmup", "timed"}
                /\ cs[i].kind = "warmup" => cs[i].timing = <<>>
                /\ cs[i].input = (IF ph = "latency" THEN single_sample
                                  ELSE batch_input)
  /\ Has("latency.warmup") => single_sample = <<1>>
  /\ Has("batch.warmup") =>
       batch_input = [i \in 1..Min(BatchSize, Len(test_dataset)) |-> i]
  /\ Has("latency.end") =>
       /\ Len(CallsOf("latency")) = warmup + num_trials
       /\ Len(latencies) = num_trials
  /\ Has("batch.end") =>
       /\ Len(CallsOf("batch")) = warmup + num_batches
       /\ Len(batch_times) = num_batches
  /\ latencies = [i \in 1..Len(Measured("latency")) |->
                    Measured("latency")[i].timing[1]]
  /\ batch_times = [i \in 1..Len(Measured("batch")) |->
                      Measured("batch")[i].timing[1]]

C3_Witness ==
  /\ Has("batch.end")
  /\ num_trials = 2 /\ latencies[1] # latencies[2]
  /\ num_batches = 2 /\ batch_times[1] # batch_times[2]
  /\ Len(batch_input) = 2

\* The metric lines printed by the cells above the cell of a phase.
PrintedBefore(phase) ==
  CASE phase = "accuracy" -> <<>>
    [] phase = "latency" -> <<"Accuracy", "Model Size on Disk">>
    [] OTHER ->
         <<"Accuracy", "Model Size on Disk",
           "Inference Latency (single sample, median)",
           "Inference Latency (single sample, 95th percentile)",
           "Inference Latency (single sample, 99th percentile)",
           "Inference Throughput (single sample)">>

\* C4 as stated: once an engine invocation has failed the run is over and
\* no metric line at all has been emitted.
C4_NoOutputOnEngineFailure ==
  error = "EngineInvocationError" =>
    /\ ~ENABLED Next
    /\ output = <<>>

\* C4 amended: once an engine invocation has failed the run is over (no
\* step, so no engine call, follows), the failed phase and the later ones
\* have printed nothing and the summary is never printed; the lines of the
\* cells completed before the failed phase have been emitted.
C4_OnlyEarlierCellsPrinted ==
  error = "EngineInvocationError" =>
    /\ pc = "aborted"
    /\ ~ENABLED Next
    /\ calls # <<>>
    /\ Metrics = PrintedBefore(calls[Len(calls)].phase)

C4_Witness ==
  /\ error = "EngineInvocationError"
  /\ calls[Len(calls)].phase = "batch"
  /\ calls[Len(calls)].kind = "timed"
  /\ Len(output) = 6

\* The steps of a run in their fixed order; the three loop steps may repeat
\* or be skipped, every other step happens once.
StepOrder ==
  <<"load", "accuracy.start", "accuracy.batch", "accuracy.finish",
    "accuracy_report", "size",
    "latency.setup", "latency.warmup", "latency.timed", "latency.end",
    "latency.aggregate",
    "batch.setup", "batch.warmup", "batch.timed", "batch.end",
    "batch.aggregate", "summary">>

LoopSteps == {"accuracy.batch", "latency.timed", "batch.timed"}

Rank(tag) == CHOOSE i \in 1..Len(StepOrder) : StepOrder[i] = tag

\* C5: the steps run in the fixed order accuracy, size, latency (warm-up,
\* timed trials, aggregate), batch throughput (warm-up, timed trials,
\* aggregate), summary; no step other than a loop iteration runs twice; the
\* summary runs only after every earlier step; and a completed run has run
\* each of them.
C5_FixedPhaseOrder ==
  /\ \A i \in 1..(Len(history) - 1) :
       /\ Rank(history[i]) <= Rank(history[i + 1])
       /\ (history[i] = history[i + 1] => history[i] \in LoopSteps)
  /\ (Has("summary") \/ pc = "done") =>
       \A k \in 1..Len(StepOrder) :
         StepOrder[k] \notin LoopSteps => Has(StepOrder[k])
  /\ \A ph \in {"latency", "batch"} :
       \A i, j \in 1..Len(CallsOf(ph)) :
         (i < j /\ CallsOf(ph)[j].kind = "warmup") => CallsOf(ph)[i].kind = "warmup"
  /\ pc = "done" =>
       Metrics = PrintedBefore("batch") \o <<"Batch Throughput">>
                   \o PrintedBefore("batch") \o <<"Batch Throughput">>

C5_Witness ==
  /\ pc = "done"
  /\ Has("accuracy.batch") /\ Has("latency.timed") /\ Has("batch.timed")

\* C6: with the engine that always predicts the true label a finished
\* accuracy measurement has correct = total and accuracy = 100.0; with the
\* engine that always predicts another label it has correct = 0 and
\* accuracy = 0.0.
C6_StubEngineAccuracy ==
  /\ engine = "right" => correct = total
  /\ engine = "wrong" => correct = 0
  /\ (engine = "right" /\ accuracy # Unset) =>
       /\ total = Len(test_dataset) /\ total > 0
       /\ accuracy[1] = 100 * accuracy[2]
       /\ Fmt2(accuracy) = [kind |-> "num", hundredths |-> 10000]
  /\ (engine = "wrong" /\ accuracy # Unset) =>
       /\ total = Len(test_dataset) /\ total > 0
       /\ accuracy[1] = 0
       /\ Fmt2(accuracy) = [kind |-> "num", hundredths |-> 0]

C6_WitnessRight ==
  /\ engine = "right" /\ accuracy # Unset /\ total = MaxSamples

C6_WitnessWrong ==
  /\ engine = "wrong" /\ accuracy # Unset /\ total = MaxSamples

\* C7: for the batch of B samples given to the engine, T >= 1 timed trials
\* and S > 0 the sum of the times measured around exactly those T timed
\* calls (the warm-up call has none), the batch throughput computed and
\* printed is (B*T)/S; and the printed single-sample throughput is
\* trials / sum(latencies) over the timed single-sample calls.
C7_ThroughputFormula ==
  /\ batch_fps # Unset =>
       LET timed == KindOf("batch", "timed")
           B == Len(timed[1].input)
           T == num_batches
           S == SumTimings(timed)
       IN  (T >= 1 /\ S > 0) =>
             /\ Len(timed) = T
             /\ B = Len(batch_input)
             /\ batch_fps[2] # 0
             /\ batch_fps[1] * S = B * T * batch_fps[2]
             /\ \A i \in 1..Len(LinesOf("Batch Throughput")) :
                  LinesOf("Batch Throughput")[i].value = batch_fps
  /\ \A i \in 1..Len(LinesOf("Inference Throughput (single sample)")) :
       LET v == LinesOf("Inference Throughput (single sample)")[i].value
           timed == KindOf("latency", "timed")
           S == SumTimings(timed)
       IN  (num_trials >= 1 /\ S > 0) =>
             /\ Len(timed) = num_trials
             /\ v[2] # 0
             /\ v[1] * S = num_trials * v[2]

C7_Witness ==
  /\ pc = "done"
  /\ num_batches = 2 /\ Len(batch_input) = 2 /\ SumSeq(batch_times) = 1
  /\ num_trials = 2 /\ SumSeq(latencies) = 2

P50Lines == LinesOf("Inference Latency (single sample, median)")
P95Lines == LinesOf("Inference Latency (single sample, 95th percentile)")
P99Lines == LinesOf("Inference Latency (single sample, 99th percentile)")

\* C8: for a non-empty latency sequence the percentiles satisfy
\* p50 <= p95 <= p99 and each lies between the smallest and the largest
\* recorded latency, both as computed and as printed by the report and the
\* summary (in ms, two decimals).
C8_PercentilesOrdered ==
  /\ latencies # <<>> =>
       LET p50 == Percentile(latencies, 50)
           p95 == Percentile(latencies, 95)
           p99 == Percentile(latencies, 99)
           lo  == <<SeqMin(latencies), 1>>
           hi  == <<SeqMax(latencies), 1>>
       IN  /\ FracLe(p50, p95) /\ FracLe(p95, p99)
           /\ FracLe(lo, p50) /\ FracLe(p99, hi)
  /\ latencies # <<>> =>
       \A i \in 1..Len(P50Lines) :
         /\ FracLe(P50Lines[i].value, P95Lines[i].value)
         /\ FracLe(P95Lines[i].value, P99Lines[i].value)
         /\ FracLe(<<SeqMin(latencies) * 1000, 1>>, P50Lines[i].value)
         /\ FracLe(P99Lines[i].value, <<SeqMax(latencies) * 1000, 1>>)
         /\ P50Lines[i].text.hundredths <= P95Lines[i].text.hundredths
         /\ P95Lines[i].text.hundredths <= P99Lines[i].text.hundredths

C8_Witness ==
  /\ pc = "done"
  /\ Len(latencies) = 2 /\ latencies[1] > latencies[2]
  /\ P50Lines[2].text.hundredths < P95Lines[2].text.hundredths

\* C9 as stated: with an empty dataset the run fails with
\* DatasetExhaustedError, without an engine call and without any metric.
C9_FailsDatasetExhausted ==
  evaluation = <<>> =>
    /\ pc # "done"
    /\ pc = "aborted" => error = "DatasetExhaustedError"
    /\ calls = <<>> /\ output = <<>>

\* C9 amended: with an empty dataset the run makes no engine call and
\* prints no metric, and it stops before any sample is fetched: either the
\* dataset cell fails (FileNotFoundError) or the accuracy cell fails at
\* correct / total (ZeroDivisionError); it never fails with
\* DatasetExhaustedError.
C9_EmptyDatasetFailsEarly ==
  /\ error # "DatasetExhaustedError"
  /\ evaluation = <<>> =>
       /\ calls = <<>> /\ output = <<>>
       /\ accuracy = Unset
       /\ pc \in {"load", "accuracy", "aborted"}
       /\ ~Has("latency.setup")
       /\ pc = "aborted" => error \in {"FileNotFoundError", "ZeroDivisionError"}
       /\ (pc = "aborted" /\ Has("accuracy.start")) => error = "ZeroDivisionError"
       /\ Has("accuracy.finish") => pc = "aborted"

C9_Witness ==
  /\ evaluation = <<>> /\ pc = "aborted" /\ calls = <<>> /\ output = <<>>

\* The accuracy calls that returned (a failed call is the last one).
AccReturned ==
  IF error = "EngineInvocationError" /\ calls[Len(calls)].phase = "accuracy"
  THEN SubSeq(CallsOf("accuracy"), 1, Len(CallsOf("accuracy")) - 1)
  ELSE CallsOf("accuracy")

\* C10: the accuracy loop gives the engine the batches of the dataset once
\* each and in dataset order, one call per batch (the inputs, put end to
\* end, are the samples 1, 2, ... in order, each batch full but possibly
\* the last); after each batch 0 <= correct <= total and total is the number
\* of samples seen; at the end total is the dataset's size; the dataset is
\* the one loaded; and the single sample and the batch of the later phases
\* are the first sample and the first batch the accuracy loop saw.
C10_BatchesOnceInOrder ==
  LET acc  == CallsOf("accuracy")
      seen == Flatten([i \in 1..Len(AccReturned) |-> AccReturned[i].input])
  IN  /\ pc # "load" /\ error # "FileNotFoundError" => test_dataset = evaluation
      /\ Flatten([i \in 1..Len(acc) |-> acc[i].input])
           = [i \in 1..Min(Len(acc) * BatchSize, Len(test_dataset)) |-> i]
      /\ \A i \in 1..Len(acc) :
           /\ acc[i].kind = "eval"
           /\ acc[i].input # <<>>
           /\ i < Len(acc) => Len(acc[i].input) = BatchSize
      /\ Len(AccReturned) = batch_idx
      /\ 0 <= correct /\ correct <= total
      /\ total = Len(seen)
      /\ accuracy # Unset =>
           /\ total = Len(test_dataset)
           /\ Len(acc) * BatchSize >= Len(test_dataset)
      /\ Has("latency.warmup") => single_sample = <<acc[1].input[1]>>
      /\ Has("batch.warmup") => batch_input = acc[1].input

C10_Witness ==
  /\ pc = "done"
  /\ Len(test_dataset) = MaxSamples
  /\ Len(CallsOf("accuracy")) >= 2
  /\ 0 < correct /\ correct < total

====
